---- MODULE Spec2Model ----
(***************************************************************************)
(* A model of maint/MultiStage2.py, the multistage table builder that      *)
(* digests the Unicode character database into pcre_ucd.c: the type-width  *)
(* resolver (get_type_size), the record combiner (combine_tables), the     *)
(* record layout planner (get_record_size_struct), the block compressor    *)
(* (compress_table), the block-size optimizer loop and print_records.      *)
(*                                                                         *)
(* Python integers are unbounded and TLC's are 32-bit, so an integer that  *)
(* get_type_size compares with its limits is a pair <<hi, lo>> standing    *)
(* for hi * 65536 + lo with lo in 0..65535 (a PyInt).  Sequences are       *)
(* 1-based here and 0-based in Python: code point c is element c + 1.      *)
(***************************************************************************)
EXTENDS Integers, Sequences, FiniteSets, TLC

VARIABLES
    pc,             \* position in the script / in the call under study
    script,         \* line 270: dense table of script numbers
    category,       \* line 271: dense table of category numbers
    other_case,     \* line 272: dense table of other-case offsets
    table,          \* line 275: record-id array
    records,        \* line 275: dict  tuple -> id
    record_size,    \* line 276
    block_index,    \* line 280: position of the for loop in its list
    size,           \* line 281
    stage1,         \* line 282
    stage2,         \* line 282
    min_size,       \* line 279, 286
    min_stage1,     \* line 287
    min_stage2,     \* line 287
    min_block_size, \* line 288
    printed,        \* lines 240-241: the records emitted by print_records
    call_arg,       \* the argument of a function called on its own
    call_ret        \* what that call returned or raised

vars == <<pc, script, category, other_case, table, records, record_size,
          block_index, size, stage1, stage2, min_size, min_stage1, min_stage2,
          min_block_size, printed, call_arg, call_ret>>

pipeline_vars == <<script, category, other_case, table, records, record_size,
                   block_index, size, stage1, stage2, min_size, min_stage1,
                   min_stage2, min_block_size, printed>>

-----------------------------------------------------------------------------
(* Bounds of the model.                                                    *)

\* longest array handed to get_type_size on its own
MaxLen == 2
\* most records of a record table handed to get_record_size_struct on its own
MaxRecords == 1
\* longest tuple of such a record table
MaxArity == 3
\* most blocks of an array handed to compress_table on its own
MaxBlocks == 3
\* largest block size tried on such an array
MaxBlockSize == 2
\* largest value of such an array
MaxValue == 1
\* MAX_UNICODE is Planes times the largest candidate block size
Planes == 3

-----------------------------------------------------------------------------
(* Python values.                                                          *)

Range(s) == {s[i] : i \in DOMAIN s}

Min(S) == CHOOSE x \in S : \A y \in S : x <= y

\* the PyInt of a TLC integer
Py(n) == <<n \div 65536, n % 65536>>

\* a <= b on PyInts
PyLe(a, b) == a[1] < b[1] \/ (a[1] = b[1] /\ a[2] <= b[2])

PySeq(s) == [i \in DOMAIN s |-> Py(s[i])]

\* Python's min() and max() of a non-empty list
PyMin(t) == CHOOSE x \in Range(t) : \A y \in Range(t) : PyLe(x, y)
PyMax(t) == CHOOSE x \in Range(t) : \A y \in Range(t) : PyLe(y, x)

\* Python's x & y and ~x on integers (two's complement of unbounded width)
RECURSIVE BitAnd(_, _)
BitAnd(x, y) ==
    IF x = 0 \/ y = 0 THEN 0
    ELSE IF x = -1 THEN y
    ELSE IF y = -1 THEN x
    ELSE (x % 2) * (y % 2) + 2 * BitAnd(x \div 2, y \div 2)

BitNot(x) == -x - 1

-----------------------------------------------------------------------------
(* get_type_size, lines 123-134.                                           *)

type_size == << <<"uschar", 1>>, <<"pcre_uint16", 2>>, <<"pcre_uint32", 4>>,
                <<"signed char", 1>>, <<"pcre_int16", 2>>, <<"pcre_int32", 4>> >>

\* (0, 255), (0, 65535), (0, 4294967295),
\* (-128, 127), (-32768, 32767), (-2147483648, 2147483647)
limits == << <<Py(0), Py(255)>>, <<Py(0), Py(65535)>>, <<Py(0), <<65535, 65535>> >>,
             <<Py(-128), Py(127)>>, <<Py(-32768), Py(32767)>>,
             << <<-32768, 0>>, <<32767, 65535>> >> >>

OverflowError == <<"OverflowError", 0>>
ValueError == <<"ValueError", 0>>

IsError(r) == r \in {OverflowError, ValueError}

\* a faulty variant: the loop tests maxval alone
get_type_size_maxonly(t) ==
    IF Len(t) = 0 THEN ValueError
    ELSE LET maxval == PyMax(t)
             fits == {num \in DOMAIN limits : PyLe(maxval, limits[num][2])}
         IN  IF fits = {} THEN OverflowError ELSE type_size[Min(fits)]

\* a faulty variant: the candidates are tried widest first
get_type_size_widest(t) ==
    IF Len(t) = 0 THEN ValueError
    ELSE LET minval == PyMin(t)
             maxval == PyMax(t)
             fits == {num \in DOMAIN limits :
                        PyLe(limits[num][1], minval) /\ PyLe(maxval, limits[num][2])}
         IN  IF fits = {} THEN OverflowError
             ELSE type_size[CHOOSE n \in fits : \A m \in fits : m <= n]

\* t is a sequence of PyInts; min() of an empty list raises ValueError
get_type_size(t) ==
    IF Len(t) = 0 THEN ValueError
    ELSE LET minval == PyMin(t)
             maxval == PyMax(t)
             fits == {num \in DOMAIN limits :
                        PyLe(limits[num][1], minval) /\ PyLe(maxval, limits[num][2])}
         IN  IF fits = {} THEN OverflowError ELSE type_size[Min(fits)]

-----------------------------------------------------------------------------
(* get_type_size called on its own.                                        *)

\* -2147483649, -2147483648, -32769, -32768, -129, -128, -5, 0, 127, 128, 130,
\* 255, 256, 32767, 32768, 65535, 65536, 2147483647, 2147483648, 4294967295,
\* 4294967296
TypeSizeValues ==
    { <<-32769, 65535>>, <<-32768, 0>>, Py(-32769), Py(-32768), Py(-129),
      Py(-128), Py(-5), Py(0), Py(127), Py(128), Py(130), Py(255), Py(256),
      Py(32767), Py(32768), Py(65535), Py(65536), <<32767, 65535>>,
      <<32768, 0>>, <<65535, 65535>>, <<65536, 0>> }

SeqsUpTo(S, n) == UNION {[1..k -> S] : k \in 1..n}

Idle ==
    /\ script = <<>> /\ category = <<>> /\ other_case = <<>>
    /\ table = <<>> /\ records = <<>> /\ record_size = 0
    /\ block_index = 0 /\ size = 0 /\ stage1 = <<>> /\ stage2 = <<>>
    /\ min_size = 0 /\ min_stage1 = <<>> /\ min_stage2 = <<>>
    /\ min_block_size = 0 /\ printed = <<>>

InitTypeSize ==
    /\ pc = "call"
    /\ call_arg \in SeqsUpTo(TypeSizeValues, MaxLen)
    /\ call_ret = <<>>
    /\ Idle

CallGetTypeSize ==
    /\ pc = "call"
    /\ call_ret' = get_type_size(call_arg)
    /\ pc' = "returned"
    /\ UNCHANGED <<call_arg, pipeline_vars>>

NextTypeSize == CallGetTypeSize

SpecTypeSize == InitTypeSize /\ [][NextTypeSize]_vars

\* C3 and C5 state the candidates on their own: the kind, the byte size and the
\* range of uint8, uint16, uint32, int8, int16, int32, in that order
Candidates ==
    << [type |-> "uschar", size |-> 1, signed |-> FALSE,
        lo |-> Py(0), hi |-> Py(255)],
       [type |-> "pcre_uint16", size |-> 2, signed |-> FALSE,
        lo |-> Py(0), hi |-> Py(65535)],
       [type |-> "pcre_uint32", size |-> 4, signed |-> FALSE,
        lo |-> Py(0), hi |-> <<65535, 65535>>],
       [type |-> "signed char", size |-> 1, signed |-> TRUE,
        lo |-> Py(-128), hi |-> Py(127)],
       [type |-> "pcre_int16", size |-> 2, signed |-> TRUE,
        lo |-> Py(-32768), hi |-> Py(32767)],
       [type |-> "pcre_int32", size |-> 4, signed |-> TRUE,
        lo |-> <<-32768, 0>>, hi |-> <<32767, 65535>>] >>

CoveredBy(t, k) ==
    \A i \in DOMAIN t : PyLe(Candidates[k].lo, t[i]) /\ PyLe(t[i], Candidates[k].hi)

Covering(t) == {k \in DOMAIN Candidates : CoveredBy(t, k)}

\* C3: width minimality of get_type_size.  For a non-empty array that some
\* candidate covers, the result is the first candidate, in the order uint8,
\* uint16, uint32, int8, int16, int32, whose range holds every element; no
\* covering candidate has a smaller byte size; values within [0, 130] give the
\* 1-byte unsigned type; an array with a negative value gives a signed type.
C3_WidthMinimality ==
    (pc = "returned" /\ Covering(call_arg) # {}) =>
        LET first == Min(Covering(call_arg)) IN
        /\ call_ret = <<Candidates[first].type, Candidates[first].size>>
        /\ \A k \in Covering(call_arg) : Candidates[k].size >= call_ret[2]
        /\ (\A i \in DOMAIN call_arg :
                PyLe(Py(0), call_arg[i]) /\ PyLe(call_arg[i], Py(130)))
           => call_ret = <<"uschar", 1>>
        /\ (\E i \in DOMAIN call_arg : ~PyLe(Py(0), call_arg[i]))
           => \E k \in DOMAIN Candidates :
                 Candidates[k].signed /\ Candidates[k].type = call_ret[1]

\* an array holding -5 and 130 resolved to the 16-bit signed type
C3_Witness ==
    /\ pc = "returned"
    /\ Py(-5) \in Range(call_arg)
    /\ Py(130) \in Range(call_arg)
    /\ call_ret = <<"pcre_int16", 2>>

\* C5: the overflow error of get_type_size.  For a non-empty array the call
\* raises OverflowError exactly when no single candidate range holds both the
\* minimum and the maximum of the array; otherwise it returns one of the six
\* types and raises nothing.
C5_OverflowIffUncovered ==
    pc = "returned" =>
        /\ (call_ret = OverflowError) <=> (Covering(call_arg) = {})
        /\ (Covering(call_arg) # {}) =>
              \E k \in DOMAIN Candidates :
                 call_ret = <<Candidates[k].type, Candidates[k].size>>

\* a mixed-sign array, with -5 and 2147483648, raised the error
C5_Witness ==
    /\ pc = "returned"
    /\ Py(-5) \in Range(call_arg)
    /\ <<32768, 0>> \in Range(call_arg)
    /\ call_ret = OverflowError

-----------------------------------------------------------------------------
(* get_record_size_struct, lines 199-217.                                  *)

\* the loop of lines 203-209 from field i on; offsets keeps the value size
\* has after line 207 for each field, the offset the field is laid at
RECURSIVE record_fields(_, _, _)
record_fields(recs, i, acc) ==
    IF i > Len(recs[1]) THEN acc
    ELSE LET record_slice == [r \in DOMAIN recs |-> recs[r][i]]
             ts == get_type_size(PySeq(record_slice))
         IN  IF IsError(ts) THEN [acc EXCEPT !.raised = ts[1]]
             ELSE LET padded == BitAnd(acc.size + ts[2] - 1, -ts[2])
                  IN  record_fields(recs, i + 1,
                          [raised |-> acc.raised,
                           size |-> padded + ts[2],
                           structure |-> Append(acc.structure, ts[1]),
                           offsets |-> Append(acc.offsets, padded)])

\* a faulty variant: line 214 is left out
get_record_size_struct_nopad(recs) ==
    record_fields(recs, 1,
        [raised |-> "", size |-> 0, structure |-> <<>>, offsets |-> <<>>])

\* recs is a non-empty sequence of tuples of one length; the result holds the
\* returned size and the types named in the returned structure text
get_record_size_struct(recs) ==
    LET walk == record_fields(recs, 1,
                    [raised |-> "", size |-> 0, structure |-> <<>>,
                     offsets |-> <<>>])
    IN  IF walk.raised # "" THEN walk
        ELSE LET record_slice == [r \in DOMAIN recs |-> recs[r][1]]
                 ts == get_type_size(PySeq(record_slice))
             IN  [walk EXCEPT !.size = BitAnd(walk.size + ts[2] - 1, -ts[2])]

\* test_record_size, lines 219-229: the tables and the sizes asserted
tests ==
    << << << <<3>>, <<6>>, <<6>>, <<1>> >>, 1 >>,
       << << <<300>>, <<600>>, <<600>>, <<100>> >>, 2 >>,
       << << <<25, 3>>, <<6, 6>>, <<34, 6>>, <<68, 1>> >>, 2 >>,
       << << <<300, 3>>, <<6, 6>>, <<340, 6>>, <<690, 1>> >>, 4 >>,
       << << <<3, 300>>, <<6, 6>>, <<6, 340>>, <<1, 690>> >>, 4 >>,
       << << <<300, 300>>, <<6, 6>>, <<6, 340>>, <<1, 690>> >>, 4 >>,
       << << <<3, 100000>>, <<6, 6>>, <<6, 123456>>, <<1, 690>> >>, 8 >>,
       << << <<100000, 300>>, <<6, 6>>, <<123456, 6>>, <<1, 690>> >>, 8 >> >>

\* lines 230-232: TRUE when no assert fails
test_record_size ==
    \A k \in DOMAIN tests : get_record_size_struct(tests[k][1]).size = tests[k][2]

-----------------------------------------------------------------------------
(* get_record_size_struct called on its own.                               *)

\* values of the widths 1, 2 and 4, and one that asks for a signed type
RecordValues == {-5, 3, 300, 100000}

RecordTables ==
    UNION {[1..n -> [1..a -> RecordValues]] : n \in 1..MaxRecords, a \in 1..MaxArity}

InitRecordSize ==
    /\ pc = "call"
    /\ call_arg \in RecordTables \cup {tests[k][1] : k \in DOMAIN tests}
    /\ call_ret = <<>>
    /\ Idle

CallGetRecordSizeStruct ==
    /\ pc = "call"
    /\ call_ret' = get_record_size_struct(call_arg)
    /\ pc' = "returned"
    /\ UNCHANGED <<call_arg, pipeline_vars>>

NextRecordSize == CallGetRecordSizeStruct

SpecRecordSize == InitRecordSize /\ [][NextRecordSize]_vars

\* C6 and C10 state the layout on their own, by arithmetic
RoundUp(n, w) == ((n + w - 1) \div w) * w

\* the width of column i: the byte size of the first candidate covering it
ColumnWidth(recs, i) ==
    Candidates[Min(Covering(PySeq([r \in DOMAIN recs |-> recs[r][i]])))].size

RECURSIVE LayoutEnd(_, _)
\* the offset after field i when the fields are laid in tuple order from 0
LayoutEnd(recs, i) ==
    IF i = 0 THEN 0
    ELSE RoundUp(LayoutEnd(recs, i - 1), ColumnWidth(recs, i)) + ColumnWidth(recs, i)

\* C6: the record size of get_record_size_struct.  The returned size is the
\* offset reached by walking the fields in tuple order from 0, rounding up to a
\* multiple of each field's resolved width before adding it, rounded up at the
\* end to a multiple of the first field's width; the eight tables of
\* test_record_size get the sizes it asserts; and (size + w - 1) & -w agrees
\* with (size + w - 1) & ~(w - 1) for w in {1, 2, 4}.
C6_RecordSize ==
    pc = "returned" =>
        /\ call_ret.raised = ""
        /\ call_ret.size =
              RoundUp(LayoutEnd(call_arg, Len(call_arg[1])), ColumnWidth(call_arg, 1))
        /\ \A k \in DOMAIN tests : call_arg = tests[k][1] => call_ret.size = tests[k][2]
        /\ \A w \in {1, 2, 4} : \A s \in 0..call_ret.size :
              BitAnd(s + w - 1, -w) = BitAnd(s + w - 1, BitNot(w - 1))

\* the seventh table of test_record_size, widths 1 then 4, got 8 bytes
C6_Witness ==
    /\ pc = "returned"
    /\ call_arg = tests[7][1]
    /\ call_ret.structure = <<"uschar", "pcre_uint32">>
    /\ call_ret.size = 8

-----------------------------------------------------------------------------
(* compress_table, lines 144-159.                                          *)

\* table[i:i+block_size]: a slice stops at the end of the table
Slice(tbl, i, block_size) ==
    SubSeq(tbl, i + 1, IF i + block_size <= Len(tbl) THEN i + block_size ELSE Len(tbl))

\* the dict blocks is the set of its (block, start) items
RECURSIVE compress_loop(_, _, _, _)
compress_loop(tbl, block_size, i, acc) ==
    IF i >= Len(tbl) THEN acc
    ELSE LET block == Slice(tbl, i, block_size)
             found == {item \in acc.blocks : item[1] = block}
         IN  IF found = {}
             THEN LET start == Len(acc.stage2) \div block_size
                  IN  compress_loop(tbl, block_size, i + block_size,
                          [blocks |-> acc.blocks \cup {<<block, start>>},
                           stage1 |-> Append(acc.stage1, start),
                           stage2 |-> acc.stage2 \o block])
             ELSE LET start == (CHOOSE item \in found : TRUE)[2]
                  IN  compress_loop(tbl, block_size, i + block_size,
                          [acc EXCEPT !.stage1 = Append(acc.stage1, start)])

\* a faulty variant: line 154 without the division
RECURSIVE compress_loop_nodiv(_, _, _, _)
compress_loop_nodiv(tbl, block_size, i, acc) ==
    IF i >= Len(tbl) THEN acc
    ELSE LET block == Slice(tbl, i, block_size)
             found == {item \in acc.blocks : item[1] = block}
         IN  IF found = {}
             THEN LET start == Len(acc.stage2)
                  IN  compress_loop_nodiv(tbl, block_size, i + block_size,
                          [blocks |-> acc.blocks \cup {<<block, start>>},
                           stage1 |-> Append(acc.stage1, start),
                           stage2 |-> acc.stage2 \o block])
             ELSE LET start == (CHOOSE item \in found : TRUE)[2]
                  IN  compress_loop_nodiv(tbl, block_size, i + block_size,
                          [acc EXCEPT !.stage1 = Append(acc.stage1, start)])

compress_table_nodiv(tbl, block_size) ==
    LET r == compress_loop_nodiv(tbl, block_size, 0,
                 [blocks |-> {}, stage1 |-> <<>>, stage2 |-> <<>>])
    IN  <<r.stage1, r.stage2>>

\* a faulty variant: line 156 is left out, so no block is ever found again
RECURSIVE compress_loop_nodedup(_, _, _, _)
compress_loop_nodedup(tbl, block_size, i, acc) ==
    IF i >= Len(tbl) THEN acc
    ELSE LET block == Slice(tbl, i, block_size)
             start == Len(acc.stage2) \div block_size
         IN  compress_loop_nodedup(tbl, block_size, i + block_size,
                 [blocks |-> acc.blocks,
                  stage1 |-> Append(acc.stage1, start),
                  stage2 |-> acc.stage2 \o block])

compress_table_nodedup(tbl, block_size) ==
    LET r == compress_loop_nodedup(tbl, block_size, 0,
                 [blocks |-> {}, stage1 |-> <<>>, stage2 |-> <<>>])
    IN  <<r.stage1, r.stage2>>

compress_table(tbl, block_size) ==
    LET r == compress_loop(tbl, block_size, 0,
                 [blocks |-> {}, stage1 |-> <<>>, stage2 |-> <<>>])
    IN  <<r.stage1, r.stage2>>

-----------------------------------------------------------------------------
(* compress_table called on its own.                                       *)

CompressArgs ==
    UNION {[table : [1..(n * b) -> 0..MaxValue], block_size : {b}] :
              n \in 1..MaxBlocks, b \in 1..MaxBlockSize}

InitCompress ==
    /\ pc = "call"
    /\ call_arg \in CompressArgs
    /\ call_ret = <<>>
    /\ Idle

CallCompressTable ==
    /\ pc = "call"
    /\ call_ret' = compress_table(call_arg.table, call_arg.block_size)
    /\ pc' = "returned"
    /\ UNCHANGED <<call_arg, pipeline_vars>>

NextCompress == CallCompressTable

SpecCompress == InitCompress /\ [][NextCompress]_vars

\* the two-stage lookup of code point c (from 0), as the header comment and
\* pcre_internal.h do it: stage2[stage1[c / B] * B + c % B]
Lookup(s1, s2, B, c) == s2[s1[(c \div B) + 1] * B + (c % B) + 1]

\* C1: the round trip of compress_table.  For a table whose length is a
\* multiple of the block size B, every index c of the table satisfies
\* stage2[stage1[c / B] * B + c % B] = table[c].
C1_RoundTrip ==
    pc = "returned" =>
        /\ Len(call_ret[1]) * call_arg.block_size = Len(call_arg.table)
        /\ \A c \in 0..(Len(call_arg.table) - 1) :
              /\ (c \div call_arg.block_size) + 1 \in DOMAIN call_ret[1]
              /\ call_ret[1][(c \div call_arg.block_size) + 1] * call_arg.block_size
                    + (c % call_arg.block_size) + 1 \in DOMAIN call_ret[2]
              /\ Lookup(call_ret[1], call_ret[2], call_arg.block_size, c)
                    = call_arg.table[c + 1]

\* three blocks of two, the third equal to the first and found again
C1_Witness ==
    /\ pc = "returned"
    /\ call_arg.block_size = 2
    /\ call_arg.table = <<0, 1, 1, 1, 0, 1>>
    /\ call_ret = << <<0, 1, 0>>, <<0, 1, 1, 1>> >>

\* block j (from 0) of a sequence cut into blocks of B
BlockOf(t, B, j) == SubSeq(t, j * B + 1, j * B + B)

\* the blocks of t that no earlier block equals
FirstBlocks(t, B) ==
    {j \in 0..((Len(t) \div B) - 1) :
        \A h \in 0..(j - 1) : BlockOf(t, B, h) # BlockOf(t, B, j)}

FirstIndex(s, k) == Min({j \in DOMAIN s : s[j] = k})

\* C8: the structure of compress_table's output.  For a table whose length is
\* a multiple of B: stage1 has len(table) / B entries; stage2 has B * U, U the
\* number of distinct B-aligned blocks of the table; the blocks of stage2 are
\* pairwise different and stand in the order of their first occurrence in the
\* table; every stage1 entry is in [0, U); stage1[0] = 0; and each k > 0 first
\* occurs in stage1 after k - 1 first occurs.
C8_Structure ==
    pc = "returned" =>
        LET t == call_arg.table
            B == call_arg.block_size
            s1 == call_ret[1]
            s2 == call_ret[2]
            firsts == FirstBlocks(t, B)
            U == Cardinality({BlockOf(t, B, j) : j \in 0..((Len(t) \div B) - 1)})
        IN  /\ Len(s1) * B = Len(t)
            /\ Len(s2) = B * U
            /\ \A h, k \in 0..(U - 1) :
                  h # k => BlockOf(s2, B, h) # BlockOf(s2, B, k)
            /\ \A j \in firsts :
                  BlockOf(s2, B, Cardinality({h \in firsts : h < j})) = BlockOf(t, B, j)
            /\ \A j \in DOMAIN s1 : s1[j] \in 0..(U - 1)
            /\ s1[1] = 0
            /\ \A k \in 1..(U - 1) : FirstIndex(s1, k) > FirstIndex(s1, k - 1)

\* three blocks of two, two of them distinct, the second found again
C8_Witness ==
    /\ pc = "returned"
    /\ call_arg.block_size = 2
    /\ call_arg.table = <<0, 0, 1, 0, 1, 0>>
    /\ call_ret = << <<0, 1, 1>>, <<0, 0, 1, 0>> >>

-----------------------------------------------------------------------------
(* combine_tables, lines 189-197, and print_records, lines 235-242.        *)

\* zip(*tables): as long as the shortest table
Zip(tables) ==
    LET n == Min({Len(tables[k]) : k \in DOMAIN tables})
    IN  [c \in 1..n |-> [k \in DOMAIN tables |-> tables[k][c]]]

\* the dict records is a function from its keys to their ids
RECURSIVE combine_loop(_, _, _)
combine_loop(tuples, c, acc) ==
    IF c > Len(tuples) THEN acc
    ELSE LET t == tuples[c]
         IN  IF t \in DOMAIN acc.records
             THEN combine_loop(tuples, c + 1,
                      [acc EXCEPT !.index = Append(acc.index, acc.records[t])])
             ELSE LET i == Cardinality(DOMAIN acc.records)
                  IN  combine_loop(tuples, c + 1,
                          [records |-> acc.records @@ (t :> i),
                           index |-> Append(acc.index, i)])

\* a faulty variant: line 195 numbers from 1
RECURSIVE combine_loop_from1(_, _, _)
combine_loop_from1(tuples, c, acc) ==
    IF c > Len(tuples) THEN acc
    ELSE LET t == tuples[c]
         IN  IF t \in DOMAIN acc.records
             THEN combine_loop_from1(tuples, c + 1,
                      [acc EXCEPT !.index = Append(acc.index, acc.records[t])])
             ELSE LET i == Cardinality(DOMAIN acc.records) + 1
                  IN  combine_loop_from1(tuples, c + 1,
                          [records |-> acc.records @@ (t :> i),
                           index |-> Append(acc.index, i)])

combine_tables_from1(tables) ==
    LET r == combine_loop_from1(Zip(tables), 1, [records |-> <<>>, index |-> <<>>])
    IN  <<r.index, r.records>>

\* a faulty variant: the last table is left out of the tuples
combine_tables_droplast(tables) ==
    LET r == combine_loop(Zip(SubSeq(tables, 1, Len(tables) - 1)), 1,
                 [records |-> <<>>, index |-> <<>>])
    IN  <<r.index, r.records>>

combine_tables(tables) ==
    LET r == combine_loop(Zip(tables), 1, [records |-> <<>>, index |-> <<>>])
    IN  <<r.index, r.records>>

\* the orders in which a dict may hand out its keys: Python 2 fixes none
KeyOrders(recs) ==
    LET n == Cardinality(DOMAIN recs)
    IN  {o \in [1..n -> DOMAIN recs] : \A i, j \in 1..n : i # j => o[i] # o[j]}

\* list.sort by the key x[1], line 239: a stable insertion of x into sorted
SortInsert(sorted, x) ==
    LET k == Cardinality({j \in DOMAIN sorted : sorted[j][2] <= x[2]})
    IN  SubSeq(sorted, 1, k) \o <<x>> \o SubSeq(sorted, k + 1, Len(sorted))

RECURSIVE SortByValue(_)
SortByValue(items) ==
    IF items = <<>> THEN <<>>
    ELSE SortInsert(SortByValue(SubSeq(items, 1, Len(items) - 1)), items[Len(items)])

\* a faulty variant: line 239 is left out
print_records_unsorted(recs, keys) ==
    LET items == [i \in DOMAIN keys |-> <<keys[i], recs[keys[i]]>>]
    IN  [i \in DOMAIN items |-> <<items[i][1], i - 1>>]

\* keys is records.keys(); records.values() comes in the same order.  The
\* result is the record and the number printed on each line.
print_records(recs, keys) ==
    LET items == [i \in DOMAIN keys |-> <<keys[i], recs[keys[i]]>>]
        sorted == SortByValue(items)
    IN  [i \in DOMAIN sorted |-> <<sorted[i][1], i - 1>>]

-----------------------------------------------------------------------------
(* The script, lines 268-288 and 316.                                      *)

\* line 280, [2 ** i for i in range(5, 10)], scaled down to range(0, 2)
ExpLo == 0
ExpHi == 2
block_sizes == [k \in 1..(ExpHi - ExpLo) |-> 2 ^ (ExpLo + k - 1)]

\* line 82, 0x110000, scaled down; a multiple of every candidate block size
MAX_UNICODE == Planes * 2 ^ (ExpHi - 1)

\* line 279, sys.maxint, of a 32-bit build
maxint == 2147483647

\* what the three files say of a character: (script, category, other case) of
\* an unassigned one (the three defaults) and of Latin lowercase letters with
\* and without an upper case
CharKinds == {<<9, 2, 0>>, <<33, 5, -32>>, <<33, 5, 0>>}

\* get_tables_size, lines 136-141; -1 when get_type_size raises
RECURSIVE get_tables_size(_)
get_tables_size(tables) ==
    IF tables = <<>> THEN 0
    ELSE LET ts == get_type_size(PySeq(tables[1]))
             rest == get_tables_size(Tail(tables))
         IN  IF IsError(ts) \/ rest < 0 THEN -1
             ELSE ts[2] * Len(tables[1]) + rest

\* a faulty variant: line 285 with <=
IsSmaller_orequal(new_size, old_size) == new_size <= old_size

\* line 285
IsSmaller(new_size, old_size) == new_size < old_size

\* the body of the for loop, lines 281-288, on the script's variables
loop_body(st, block_size) ==
    LET compressed == compress_table(st.table, block_size)
        tables_size == get_tables_size(compressed)
        new_size == Cardinality(DOMAIN st.records) * st.record_size + tables_size
        found == [size |-> new_size, stage1 |-> compressed[1], stage2 |-> compressed[2]]
    IN  IF tables_size < 0 THEN [raised |-> "OverflowError"] @@ st
        ELSE IF IsSmaller(new_size, st.min_size)
        THEN found @@ [min_size |-> new_size, min_stage1 |-> compressed[1],
                       min_stage2 |-> compressed[2], min_block_size |-> block_size]
                   @@ st
        ELSE found @@ st

Init ==
    /\ pc = "test_record_size"
    /\ call_arg = <<>> /\ call_ret = <<>>
    /\ Idle

\* line 268
RunTests ==
    /\ pc = "test_record_size"
    /\ pc' = IF test_record_size THEN "read_table" ELSE "AssertionError"
    /\ UNCHANGED <<pipeline_vars, call_arg, call_ret>>

\* lines 270-272: read_table yields a dense table of MAX_UNICODE values
ReadTables ==
    /\ pc = "read_table"
    /\ \E chars \in [1..MAX_UNICODE -> CharKinds] :
          /\ script' = [c \in 1..MAX_UNICODE |-> chars[c][1]]
          /\ category' = [c \in 1..MAX_UNICODE |-> chars[c][2]]
          /\ other_case' = [c \in 1..MAX_UNICODE |-> chars[c][3]]
    /\ pc' = "combine_tables"
    /\ UNCHANGED <<table, records, record_size, block_index, size, stage1, stage2,
                   min_size, min_stage1, min_stage2, min_block_size, printed,
                   call_arg, call_ret>>

\* line 275
CombineTables ==
    /\ pc = "combine_tables"
    /\ LET r == combine_tables(<<script, category, other_case>>)
       IN  table' = r[1] /\ records' = r[2]
    /\ pc' = "get_record_size_struct"
    /\ UNCHANGED <<script, category, other_case, record_size, block_index, size,
                   stage1, stage2, min_size, min_stage1, min_stage2,
                   min_block_size, printed, call_arg, call_ret>>

\* lines 276 and 279: records.keys() comes in any order
RecordSize ==
    /\ pc = "get_record_size_struct"
    /\ \E keys \in KeyOrders(records) :
          LET r == get_record_size_struct(keys)
          IN  IF r.raised # ""
              THEN pc' = r.raised /\ UNCHANGED <<record_size, min_size, block_index>>
              ELSE /\ record_size' = r.size
                   /\ min_size' = maxint
                   /\ block_index' = 1
                   /\ pc' = "for block_size"
    /\ UNCHANGED <<script, category, other_case, table, records, size, stage1,
                   stage2, min_stage1, min_stage2, min_block_size, printed,
                   call_arg, call_ret>>

\* lines 280-288: one turn of the for loop
TryBlockSize ==
    /\ pc = "for block_size"
    /\ LET st == loop_body([table |-> table, records |-> records,
                            record_size |-> record_size, size |-> size,
                            stage1 |-> stage1, stage2 |-> stage2,
                            min_size |-> min_size, min_stage1 |-> min_stage1,
                            min_stage2 |-> min_stage2,
                            min_block_size |-> min_block_size, raised |-> ""],
                           block_sizes[block_index])
       IN  /\ size' = st.size /\ stage1' = st.stage1 /\ stage2' = st.stage2
           /\ min_size' = st.min_size
           /\ min_stage1' = st.min_stage1 /\ min_stage2' = st.min_stage2
           /\ min_block_size' = st.min_block_size
           /\ IF st.raised # "" THEN pc' = st.raised /\ UNCHANGED block_index
              ELSE IF block_index < Len(block_sizes)
              THEN pc' = pc /\ block_index' = block_index + 1
              ELSE pc' = "print_records" /\ UNCHANGED block_index
    /\ UNCHANGED <<script, category, other_case, table, records, record_size,
                   printed, call_arg, call_ret>>

\* line 316: records.keys() and records.values() come in any one order
PrintRecords ==
    /\ pc = "print_records"
    /\ \E keys \in KeyOrders(records) : printed' = print_records(records, keys)
    /\ pc' = "done"
    /\ UNCHANGED <<script, category, other_case, table, records, record_size,
                   block_index, size, stage1, stage2, min_size, min_stage1,
                   min_stage2, min_block_size, call_arg, call_ret>>

Next == RunTests \/ ReadTables \/ CombineTables \/ RecordSize \/ TryBlockSize
           \/ PrintRecords

Spec == Init /\ [][Next]_vars

-----------------------------------------------------------------------------
(* The claims about the script.                                            *)

Combined == pc \in {"get_record_size_struct", "for block_size", "print_records", "done"}

\* the properties of code point c - 1
TupleAt(c) == <<script[c], category[c], other_case[c]>>

\* C2: deduplication soundness of combine_tables.  Two positions have the same
\* record id exactly when their tuples are equal in every dimension, and
\* records maps the tuple at each position to the id at that position.
C2_Deduplication ==
    Combined =>
        /\ Len(table) = MAX_UNICODE
        /\ \A c1, c2 \in 1..MAX_UNICODE :
              (table[c1] = table[c2]) <=>
                  (/\ script[c1] = script[c2]
                   /\ category[c1] = category[c2]
                   /\ other_case[c1] = other_case[c2])
        /\ \A c \in 1..MAX_UNICODE :
              TupleAt(c) \in DOMAIN records /\ records[TupleAt(c)] = table[c]

\* code points 0 and 1 differ in the other case alone and get two ids; code
\* point 2 has the tuple of code point 0 and gets its id
C2_Witness ==
    /\ Combined
    /\ script[1] = script[2] /\ category[1] = category[2]
    /\ other_case[1] # other_case[2]
    /\ table[1] # table[2]
    /\ TupleAt(3) = TupleAt(1) /\ table[3] = table[1]

\* the byte width C4 gives an array: that of the first candidate covering it
WidthOf(t) == Candidates[Min(Covering(PySeq(t)))].size

\* the total size of the three tables with block size B
TotalSize(B) ==
    LET c == compress_table(table, B)
    IN  Cardinality(DOMAIN records) * record_size
           + WidthOf(c[1]) * Len(c[1]) + WidthOf(c[2]) * Len(c[2])

\* C4: block-size optimality.  After the loop min_block_size is a candidate
\* whose total size no other candidate undercuts; among the candidates of that
\* total size it is the earliest tried; and min_stage1, min_stage2, min_size
\* are the tables and the total size compress_table gives for it.
C4_BlockSizeOptimal ==
    pc \in {"print_records", "done"} =>
        /\ \E k \in DOMAIN block_sizes :
              /\ min_block_size = block_sizes[k]
              /\ \A j \in DOMAIN block_sizes :
                    /\ TotalSize(block_sizes[k]) <= TotalSize(block_sizes[j])
                    /\ TotalSize(block_sizes[j]) = TotalSize(block_sizes[k]) => k <= j
        /\ <<min_stage1, min_stage2>> = compress_table(table, min_block_size)
        /\ min_size = TotalSize(min_block_size)

\* the two candidates tie and the first one tried is kept
C4_Witness ==
    /\ pc = "print_records"
    /\ min_block_size = block_sizes[1]
    /\ TotalSize(block_sizes[2]) = min_size
    /\ size = min_size
    /\ stage1 # min_stage1

RECURSIVE RunLoop(_, _)
RunLoop(st, k) ==
    IF k > Len(block_sizes) THEN st
    ELSE RunLoop(loop_body(st, block_sizes[k]), k + 1)

\* what a run of the script on the three tables puts out when its dict hands
\* out the keys in the order that `order` applies to the keys in id order
Rerun(s, c, o, order) ==
    LET r == combine_tables(<<s, c, o>>)
        keys == [i \in DOMAIN order |->
                    CHOOSE t \in DOMAIN r[2] : r[2][t] = order[i]]
        rs == get_record_size_struct(keys).size
        st == RunLoop([table |-> r[1], records |-> r[2], record_size |-> rs,
                       size |-> 0, stage1 |-> <<>>, stage2 |-> <<>>,
                       min_size |-> maxint, min_stage1 |-> <<>>,
                       min_stage2 |-> <<>>, min_block_size |-> 0,
                       raised |-> ""], 1)
    IN  [table |-> r[1], record_size |-> rs,
         printed |-> print_records(r[2], keys),
         min_block_size |-> st.min_block_size,
         min_stage1 |-> st.min_stage1, min_stage2 |-> st.min_stage2]

IdOrders(n) == {o \in [1..n -> 0..(n - 1)] : \A i, j \in 1..n : i # j => o[i] # o[j]}

\* C7: determinism.  A second run on the same three tables, whatever the order
\* in which its dict hands out the keys, puts out the record-id array, the
\* record size, the emitted records, the block size, stage1 and stage2 of this
\* run.
C7_Deterministic ==
    pc = "done" =>
        \A order \in IdOrders(Cardinality(DOMAIN records)) :
            Rerun(script, category, other_case, order)
               = [table |-> table, record_size |-> record_size,
                  printed |-> printed, min_block_size |-> min_block_size,
                  min_stage1 |-> min_stage1, min_stage2 |-> min_stage2]

\* a run with three records, whose keys have six orders
C7_Witness ==
    /\ pc = "done"
    /\ Cardinality(DOMAIN records) = 3
    /\ Len(printed) = 3
    /\ table[1] = 0 /\ table[MAX_UNICODE] = 2

\* C9: record numbering.  The ids are exactly 0 .. |records| - 1 and each
\* occurs in the record-id array; print_records emits at position i the tuple
\* whose id is i; so the emitted record at the position found for a code point
\* through stage1 and stage2 is the tuple of that code point.
C9_RecordNumbering ==
    pc = "done" =>
        LET n == Cardinality(DOMAIN records) IN
        /\ {records[t] : t \in DOMAIN records} = 0..(n - 1)
        /\ \A id \in 0..(n - 1) : \E c \in 1..MAX_UNICODE : table[c] = id
        /\ Len(printed) = n
        /\ \A i \in 1..n : printed[i][2] = i - 1 /\ records[printed[i][1]] = i - 1
        /\ \A c \in 0..(MAX_UNICODE - 1) :
              printed[Lookup(min_stage1, min_stage2, min_block_size, c) + 1][1]
                 = TupleAt(c + 1)

\* three records; blocks of two were chosen and one block is found again
C9_Witness ==
    /\ pc = "done"
    /\ Cardinality(DOMAIN records) = 3
    /\ min_block_size = 2
    /\ \E j, k \in DOMAIN min_stage1 : j # k /\ min_stage1[j] = min_stage1[k]
    /\ printed[3] = << <<9, 2, 0>>, 2 >>

====
